---- MODULE Spec2Model ----
(***************************************************************************)
(* A model of oyato/ren (src/index.ts): the $oren facade in front of the   *)
(* o-ren prerenderer.  The facade owns one canonical Options object, gates *)
(* its operations on the presence of the backend capability object         *)
(* window['oy@o/o-ren'] and on options.disabled, and delegates merging,    *)
(* waiting and the onion lookup to that object.  The backend itself is not *)
(* part of the sources (only its declaration, src/index.ts:229-236, and    *)
(* the documentation of what it does): the definitions that stand for it   *)
(* follow the documented behaviour and say so.                             *)
(***************************************************************************)
EXTENDS Integers, Sequences, FiniteSets, TLC

----------------------------------------------------------------------------
(* Bounds of the model *)

\* the longest canonical removeNodes list that is explored
MaxList == 2
\* the number of wait tokens the backend hands out
MaxTokens == 1
\* the same, where waiting and rendering are explored on their own
MaxWaiting == 2
\* the number of options a page sets, where the merge is explored on its own
MaxOptions == 3
\* the longest string handed to the escaper
MaxStr == 3

----------------------------------------------------------------------------
(* Values *)

\* the JavaScript value undefined
Undefined == [type |-> "undefined"]

\* {} as Options: no option is set
EmptyOptions == [f \in {} |-> TRUE]

\* the members of the capability object (src/index.ts:229-236)
Members == {"mergeOpts", "wait", "onion"}

\* window['oy@o/o-ren'] is undefined
AbsentBackend == [present |-> FALSE, members |-> {}]
\* window['oy@o/o-ren'] as declared: every member is there
FullBackend == [present |-> TRUE, members |-> Members]
\* an object under that key, with any of the members
AnyBackend == {AbsentBackend} \cup {[present |-> TRUE, members |-> m] : m \in SUBSET Members}

\* a map of exported globals: keys to JSON values
NoExports == [k \in {} |-> 0]
ExportMaps == {("x" :> 1), ("x" :> 2), ("y" :> 1)}

\* the export values JSON cannot represent (a cycle, a BigInt): 0 stands for
\* them
Unrepresentable == {0}

\* removeNodes selectors
NodeLists == {<<"a">>, <<"b">>}

\* HTTP status codes passed as Options.status
StatusCodes == {404}

\* Partial<Options>: any subset of the modelled options, each with a value
\* of its type (disabled?: boolean, status?: number, removeNodes?: Array,
\* exports?: object)
Partials ==
  { d @@ s @@ r @@ e :
      d \in {EmptyOptions} \cup {[disabled |-> v] : v \in BOOLEAN},
      s \in {EmptyOptions} \cup {[status |-> v] : v \in StatusCodes},
      r \in {EmptyOptions} \cup {[removeNodes |-> v] : v \in NodeLists},
      e \in {EmptyOptions} \cup {[exports |-> v] : v \in ExportMaps} }

\* the options declared as number
NumberOptions == {"autoRedirect", "embedStylesheets", "status"}

\* the options declared as boolean
BooleanOptions == {"disabled", "embedRuntimeStyles", "httpEquiv",
                   "keepInjectedScripts", "localStorage", "preconnect",
                   "sessionStorage"}

\* the numbers a page passes for each number option
NumberValues ==
  [autoRedirect |-> {301, 308}, embedStylesheets |-> {512, 1024},
   status |-> {200, 404}]

\* Partial<Options> of one number, of one boolean or of exports, one export
\* being a value that cannot be represented, and two partials of two options
MergePartials ==
  UNION {{(f :> v) : v \in NumberValues[f]} : f \in NumberOptions}
    \cup {(f :> v) : f \in BooleanOptions, v \in BOOLEAN}
    \cup {[exports |-> v] : v \in {("x" :> 1), ("x" :> 0)}}
    \cup {[status |-> 404, httpEquiv |-> FALSE],
          [status |-> 404, exports |-> ("x" :> 0)]}

\* the partials a page passes while it waits: it disables the renderer or
\* sets the status
WaitPartials == {[disabled |-> TRUE], [status |-> 404]}

\* what the backend's onion() may answer: OnionAddr | undefined
OnionAddrs == {[domain |-> "t0r.onion", hostname |-> "t0r.onion"],
               [domain |-> "t0r.onion", hostname |-> "api.t0r.onion"]}
OnionResults == OnionAddrs \cup {Undefined}

\* WaitPromise.data of the i-th token the backend issues
Marker(i) == ToString(i)

\* the WaitPromise of an issued token: resolve is the closure over token i
WaitPromise(i) ==
  [data |-> Marker(i), props |-> ("data-o-ren-wait" :> Marker(i)), resolve |-> i]

\* the renderer has not begun to render
NotRendering == [started |-> FALSE, awaited |-> 0]

\* the object literal of src/index.ts:209-213; resolve 0 is () => {}
InertPromise == [data |-> "", props |-> NoExports, resolve |-> 0]

----------------------------------------------------------------------------
(* State *)

VARIABLES
  options,      \* $oren.options, the canonical configuration
  backend,      \* $oren.$, read once from window['oy@o/o-ren'] at load
  tokens,       \* backend: the state of each issued wait token, by number
  resolutions,  \* history: how often each token went Pending -> Resolved
  appended,     \* history: every removeNodes list that was merged, in call order
  lastOp,       \* the operation that ran last
  arg,          \* the argument it was called with
  ret,          \* what it returned
  threw,        \* whether it ended in a TypeError instead of returning
  raised,       \* whether the backend's error came out of it instead
  delegated,    \* the backend member it called, or "none"
  effect,       \* for a resolution trigger: "resolved" or "noop"
  render,       \* backend: whether rendering has begun, and the tokens issued by then
  inertHeld     \* page: whether wait() has handed it an inert promise

vars == <<options, backend, tokens, resolutions, appended,
          lastOp, arg, ret, threw, raised, delegated, effect, render,
          inertHeld>>

----------------------------------------------------------------------------
(* The backend's merge, as $oren's documentation states it *)

\* the options whose value is an array: appended to the existing entry
ArrayOptions == {"removeNodes"}
\* the options whose value is an object: merged with the existing entry
ObjectOptions == {"exports"}

\* one option of the merged result, for an option that next carries
mergeOption(f, prev, next) ==
  IF f \in ArrayOptions
    THEN (IF f \in DOMAIN prev THEN prev[f] ELSE <<>>) \o next[f]
  ELSE IF f \in ObjectOptions
    THEN next[f] @@ (IF f \in DOMAIN prev THEN prev[f] ELSE NoExports)
  ELSE next[f]

\* $oren.$.mergeOpts($oren, {prev, next}) fails with a SerializationError:
\* next exports a value that cannot be represented
mergeFails(prev, next) ==
  /\ "exports" \in DOMAIN next
  /\ \E k \in DOMAIN next["exports"] : next["exports"][k] \in Unrepresentable

\* $oren.$.mergeOpts($oren, {prev, next})
mergeOpts(prev, next) ==
  [f \in DOMAIN prev \cup DOMAIN next |->
     IF f \in DOMAIN next THEN mergeOption(f, prev, next) ELSE prev[f]]

----------------------------------------------------------------------------
(* The facade: src/index.ts *)

\* online() with one negation too few
online_singleBang(b) == ~b.present

\* $oren.online(): !!$oren.$
online(b) == b.present

\* !$oren.options.disabled is false: the flag is there and true
disabledSet(o) == "disabled" \in DOMAIN o /\ o["disabled"]

\* ok() that forgets the disabled flag
ok_ignoresDisabled(o, b) == online(b)

\* $oren.ok(): $oren.online() && !$oren.options.disabled
ok(o, b) == online(b) /\ ~disabledSet(o)

\* the gate of $oren(opts) reading the flag of opts as well
orenEchoes_readsPartial(o, b, opts) == ~ok(o, b) \/ ~b.present \/ disabledSet(opts)

\* the gate of $oren(opts) testing $oren.$ alone
orenEchoes_onlyPresence(o, b, opts) == ~b.present

\* $oren(opts), line 158: opts is returned as-is
orenEchoes(o, b, opts) == ~ok(o, b) \/ ~b.present

\* $oren(opts): the call of $oren.$.mergeOpts is a TypeError
orenThrows(o, b, opts) == ~orenEchoes(o, b, opts) /\ "mergeOpts" \notin b.members

\* $oren(opts) storing opts instead of the merged result
orenOptions_storesNext(o, b, opts) ==
  IF orenEchoes(o, b, opts) \/ orenThrows(o, b, opts) THEN o ELSE opts

\* $oren(opts) passing prev and next the wrong way round
orenOptions_swapsPrevNext(o, b, opts) ==
  IF orenEchoes(o, b, opts) \/ orenThrows(o, b, opts) THEN o ELSE mergeOpts(opts, o)

\* $oren(opts) passing {} as prev
orenOptions_dropsPrev(o, b, opts) ==
  IF orenEchoes(o, b, opts) \/ orenThrows(o, b, opts) THEN o ELSE mergeOpts(EmptyOptions, opts)

\* $oren(opts) catching the backend's error and going on
orenRaises_swallowed(o, b, opts) == FALSE

\* $oren(opts), lines 161-164: the error $oren.$.mergeOpts throws leaves
\* $oren before the assignment
orenRaises(o, b, opts) ==
  ~orenEchoes(o, b, opts) /\ ~orenThrows(o, b, opts) /\ mergeFails(o, opts)

\* $oren(opts) merging although disabled is set
orenOptions_mergesWhenDisabled(o, b, opts) ==
  IF ~b.present \/ orenThrows(o, b, opts) \/ orenRaises(o, b, opts)
    THEN o
    ELSE mergeOpts(o, opts)

\* $oren(opts) keeping the entries $oren.options already has
orenOptions_keepsExisting(o, b, opts) ==
  IF orenEchoes(o, b, opts) \/ orenThrows(o, b, opts) \/ orenRaises(o, b, opts)
    THEN o
    ELSE o @@ mergeOpts(o, opts)

\* $oren(opts): $oren.options after the call
orenOptions(o, b, opts) ==
  IF orenEchoes(o, b, opts) \/ orenThrows(o, b, opts) \/ orenRaises(o, b, opts)
    THEN o
    ELSE mergeOpts(o, opts)

\* $oren(opts): the value returned
orenReturn(o, b, opts) ==
  IF orenEchoes(o, b, opts) THEN opts ELSE orenOptions(o, b, opts)

\* wait() gated on online() instead of ok()
waitDelegates_ignoresDisabled(o, b) == online(b) /\ b.present

\* $oren.wait(p), line 207: the call goes to $oren.$.wait
waitDelegates(o, b) == ok(o, b) /\ b.present

\* $oren.wait(p): the call of $oren.$.wait is a TypeError
waitThrows(o, b) == waitDelegates(o, b) /\ "wait" \notin b.members

\* onion() gated on ok()
onionDelegates_gatedOnOk(o, b) == ok(o, b) /\ b.present

\* onion() without the test of $oren.$
onionDelegates_unguarded(o, b) == TRUE

\* $oren.onion(), line 220: the call goes to $oren.$.onion
onionDelegates(o, b) == b.present

\* $oren.onion(): the call of $oren.$.onion is a TypeError
onionThrows(o, b) == onionDelegates(o, b) /\ "onion" \notin b.members

\* $oren.onion(): the value returned, the backend answering addr
onionReturn(o, b, addr) == IF onionDelegates(o, b) THEN addr ELSE Undefined

\* the length of o.removeNodes, 0 without it
listLen(o) == IF "removeNodes" \in DOMAIN o THEN Len(o["removeNodes"]) ELSE 0

----------------------------------------------------------------------------
(* The backend's wait tokens *)

\* a trigger arrives for token t: the token after it
resolveToken(ts, t) == IF ts[t] = "Pending" THEN [ts EXCEPT ![t] = "Resolved"] ELSE ts

\* a trigger that resolves whatever the token's state
resolveCounts_unguarded(ts, t) == TRUE

\* a trigger arrives for token t: whether it counts as a resolution
resolveCounts(ts, t) == ts[t] = "Pending"

----------------------------------------------------------------------------
(* The escaping of exported values. A string is the sequence of its
   characters. *)

\* the characters of the exported strings: a letter, the three characters
\* the escaping is about, and the two JSON itself escapes
Alphabet == {"a", "&", "<", ">", "\"", "\\"}

\* the exported strings
JsonStrings == UNION {[1..n -> Alphabet] : n \in 0..MaxStr}

\* the pieces of a sequence of sequences, joined in order
Flatten(pieces) ==
  LET joined[i \in 0..Len(pieces)] ==
        IF i = 0 THEN <<>> ELSE joined[i - 1] \o pieces[i]
  IN  joined[Len(pieces)]

\* String.prototype.replace with a global pattern of one character
replaceAll(str, ch, with) ==
  Flatten([i \in DOMAIN str |-> IF str[i] = ch THEN with ELSE <<str[i]>>])

\* JSON.stringify of a string: quoted, quote and backslash escaped
JsonEncode(str) ==
  <<"\"">>
    \o Flatten([i \in DOMAIN str |->
                  IF str[i] \in {"\"", "\\"} THEN <<"\\", str[i]>>
                                             ELSE <<str[i]>>])
    \o <<"\"">>

\* the replacements of src/index.ts:48-50
EscapedAmp == <<"\\", "u", "0", "0", "2", "6">>
EscapedLt == <<"\\", "u", "0", "0", "3", "c">>
EscapedGt == <<"\\", "u", "0", "0", "3", "e">>

\* an escaping that leaves > alone
Escape_leavesGt(str) ==
  replaceAll(replaceAll(JsonEncode(str), "&", EscapedAmp), "<", EscapedLt)

\* the escaped JSON of an exported string: the JSON, then one replacement
\* after the other
Escape(str) ==
  replaceAll(replaceAll(replaceAll(JsonEncode(str),
                                   "&", EscapedAmp),
                        "<", EscapedLt),
             ">", EscapedGt)

\* a renderer that does not look at the tokens
rendersNow_ignoresPending(o, b, ts) == b.present /\ ~disabledSet(o)

\* the renderer may begin: it is online, not disabled, and no token it was
\* asked to wait for is Pending
rendersNow(o, b, ts) ==
  /\ b.present
  /\ ~disabledSet(o)
  /\ \A t \in DOMAIN ts : ts[t] = "Resolved"

----------------------------------------------------------------------------
(* Actions *)

\* the module has run: lines 173 and 225
Init ==
  /\ options = EmptyOptions
  /\ backend \in {AbsentBackend, FullBackend}
  /\ tokens = <<>>
  /\ resolutions = <<>>
  /\ appended = <<>>
  /\ lastOp = "load"
  /\ arg = Undefined
  /\ ret = Undefined
  /\ threw = FALSE
  /\ raised = FALSE
  /\ delegated = "none"
  /\ effect = "none"
  /\ render = NotRendering
  /\ inertHeld = FALSE

\* $oren(opts)
oren(opts) ==
  /\ lastOp' = "configure"
  /\ arg' = opts
  /\ listLen(orenOptions(options, backend, opts)) <= MaxList
  /\ options' = orenOptions(options, backend, opts)
  /\ threw' = orenThrows(options, backend, opts)
  /\ raised' = orenRaises(options, backend, opts)
  /\ ret' = IF threw' \/ raised' THEN Undefined ELSE orenReturn(options, backend, opts)
  /\ delegated' = IF orenEchoes(options, backend, opts) \/ threw'
                    THEN "none" ELSE "mergeOpts"
  /\ appended' = IF delegated' = "mergeOpts" /\ ~raised' /\ "removeNodes" \in DOMAIN opts
                   THEN appended \o opts["removeNodes"] ELSE appended
  /\ effect' = "none"
  /\ UNCHANGED <<backend, tokens, resolutions, render, inertHeld>>

\* $oren(opts), the configuration holding at most limit options
orenUpTo(limit, opts) ==
  /\ Cardinality(DOMAIN orenOptions(options, backend, opts)) <= limit
  /\ oren(opts)

\* $oren.wait(p), the backend handing out at most limit tokens
waitUpTo(limit) ==
  /\ lastOp' = "wait"
  /\ arg' = Undefined
  /\ waitDelegates(options, backend) /\ ~waitThrows(options, backend)
       => Len(tokens) < limit
  /\ threw' = waitThrows(options, backend)
  /\ delegated' = IF waitDelegates(options, backend) /\ ~threw' THEN "wait" ELSE "none"
  /\ tokens' = IF delegated' = "wait" THEN Append(tokens, "Pending") ELSE tokens
  /\ resolutions' = IF delegated' = "wait" THEN Append(resolutions, 0) ELSE resolutions
  /\ ret' = IF threw' THEN Undefined
            ELSE IF delegated' = "wait" THEN WaitPromise(Len(tokens'))
            ELSE InertPromise
  /\ raised' = FALSE
  /\ effect' = "none"
  /\ inertHeld' = (inertHeld \/ (~threw' /\ delegated' = "none"))
  /\ UNCHANGED <<options, backend, appended, render>>

\* $oren.wait(p)
wait == waitUpTo(MaxTokens)

\* $oren.onion(), the backend answering addr when it is asked
onion(addr) ==
  /\ lastOp' = "onion"
  /\ arg' = Undefined
  /\ threw' = onionThrows(options, backend)
  /\ delegated' = IF onionDelegates(options, backend) /\ ~threw' THEN "onion" ELSE "none"
  /\ ret' = IF threw' THEN Undefined ELSE onionReturn(options, backend, addr)
  /\ raised' = FALSE
  /\ effect' = "none"
  /\ UNCHANGED <<options, backend, tokens, resolutions, appended, render, inertHeld>>

\* $oren.ok()
okQuery ==
  /\ lastOp' = "ok"
  /\ arg' = Undefined
  /\ ret' = ok(options, backend)
  /\ threw' = FALSE
  /\ raised' = FALSE
  /\ delegated' = "none"
  /\ effect' = "none"
  /\ UNCHANGED <<options, backend, tokens, resolutions, appended, render, inertHeld>>

\* $oren.online()
onlineQuery ==
  /\ lastOp' = "online"
  /\ arg' = Undefined
  /\ ret' = online(backend)
  /\ threw' = FALSE
  /\ raised' = FALSE
  /\ delegated' = "none"
  /\ effect' = "none"
  /\ UNCHANGED <<options, backend, tokens, resolutions, appended, render, inertHeld>>

\* the page calls the resolve of an inert promise it was given, () => {}
resolveInert ==
  /\ inertHeld
  /\ lastOp' = "resolveInert"
  /\ arg' = Undefined
  /\ ret' = Undefined
  /\ threw' = FALSE
  /\ raised' = FALSE
  /\ delegated' = "none"
  /\ effect' = "noop"
  /\ UNCHANGED <<options, backend, tokens, resolutions, appended, render, inertHeld>>

\* a trigger named op arrives for the issued token t
trigger(op, t) ==
  /\ t \in DOMAIN tokens
  /\ lastOp' = op
  /\ arg' = t
  /\ tokens' = resolveToken(tokens, t)
  /\ resolutions' = [resolutions EXCEPT ![t] = @ + (IF resolveCounts(tokens, t) THEN 1 ELSE 0)]
  /\ effect' = IF resolveCounts(tokens, t) THEN "resolved" ELSE "noop"
  /\ ret' = Undefined
  /\ threw' = FALSE
  /\ raised' = FALSE
  /\ delegated' = "none"
  /\ UNCHANGED <<options, backend, appended, render, inertHeld>>

\* the page calls WaitPromise.resolve() of token t
resolveExplicit(t) == trigger("resolve", t)

\* the backend sees an element with data-o-ren-wait = the marker of token t
domMatch(t) == trigger("dom", t)

\* a timer whose expiry resolves nothing
timeoutExpiry_lost(t) ==
  /\ t \in DOMAIN tokens
  /\ lastOp' = "timeout"
  /\ arg' = t
  /\ effect' = "noop"
  /\ ret' = Undefined
  /\ threw' = FALSE
  /\ raised' = FALSE
  /\ delegated' = "none"
  /\ UNCHANGED <<options, backend, tokens, resolutions, appended, render, inertHeld>>

\* the backend's timer for token t expires
timeoutExpiry(t) == trigger("timeout", t)

\* the timer of token t expires while the token is Pending
timeoutOfPending(t) ==
  /\ t \in DOMAIN tokens
  /\ tokens[t] = "Pending"
  /\ timeoutExpiry(t)

\* the backend escapes an exported string for embedding
escape(str) ==
  /\ lastOp' = "escape"
  /\ arg' = str
  /\ ret' = Escape(str)
  /\ threw' = FALSE
  /\ raised' = FALSE
  /\ delegated' = "none"
  /\ effect' = "none"
  /\ UNCHANGED <<options, backend, tokens, resolutions, appended, render, inertHeld>>

\* the backend begins to render the page
beginRender ==
  /\ ~render.started
  /\ rendersNow(options, backend, tokens)
  /\ render' = [started |-> TRUE, awaited |-> Len(tokens)]
  /\ lastOp' = "render"
  /\ arg' = Undefined
  /\ ret' = Undefined
  /\ threw' = FALSE
  /\ raised' = FALSE
  /\ delegated' = "none"
  /\ effect' = "none"
  /\ UNCHANGED <<options, backend, tokens, resolutions, appended, inertHeld>>

Next ==
  \/ \E opts \in Partials : oren(opts)
  \/ wait
  \/ \E addr \in OnionResults : onion(addr)
  \/ okQuery
  \/ onlineQuery
  \/ resolveInert
  \/ \E t \in 1..MaxTokens : resolveExplicit(t)
  \/ \E t \in 1..MaxTokens : domMatch(t)
  \/ \E t \in 1..MaxTokens : timeoutExpiry(t)

Spec == Init /\ [][Next]_vars

\* the same program loaded where window['oy@o/o-ren'] is absent or lacks members
InitMembers ==
  /\ options = EmptyOptions
  /\ backend \in AnyBackend \ {FullBackend}
  /\ tokens = <<>>
  /\ resolutions = <<>>
  /\ appended = <<>>
  /\ lastOp = "load"
  /\ arg = Undefined
  /\ ret = Undefined
  /\ threw = FALSE
  /\ raised = FALSE
  /\ delegated = "none"
  /\ effect = "none"
  /\ render = NotRendering
  /\ inertHeld = FALSE

SpecMembers == InitMembers /\ [][Next]_vars

\* the merge alone: the renderer is online and the page configures numbers,
\* booleans and exports
InitMerge ==
  /\ options = EmptyOptions
  /\ backend = FullBackend
  /\ tokens = <<>>
  /\ resolutions = <<>>
  /\ appended = <<>>
  /\ lastOp = "load"
  /\ arg = Undefined
  /\ ret = Undefined
  /\ threw = FALSE
  /\ raised = FALSE
  /\ delegated = "none"
  /\ effect = "none"
  /\ render = NotRendering
  /\ inertHeld = FALSE

NextMerge == \E opts \in MergePartials : orenUpTo(MaxOptions, opts)

SpecMerge == InitMerge /\ [][NextMerge]_vars

\* waiting and rendering: the renderer is online, the page asks it to wait,
\* the triggers arrive and the renderer begins to render
InitWait == InitMerge

NextWait ==
  \/ \E opts \in WaitPartials : oren(opts)
  \/ waitUpTo(MaxWaiting)
  \/ \E t \in 1..MaxWaiting : resolveExplicit(t)
  \/ \E t \in 1..MaxWaiting : domMatch(t)
  \/ \E t \in 1..MaxWaiting : timeoutExpiry(t)
  \/ resolveInert
  \/ beginRender

SpecWait == InitWait /\ [][NextWait]_vars

\* the same, every timer of a Pending token expiring in the end
SpecWaitFair ==
  SpecWait /\ \A t \in 1..MaxWaiting : WF_vars(timeoutOfPending(t))

\* the escaping alone: the renderer escapes one exported string after another
InitEscape == InitMerge

NextEscape == \E str \in JsonStrings : escape(str)

SpecEscape == InitEscape /\ [][NextEscape]_vars

----------------------------------------------------------------------------
(* What the claims speak of, stated on the state alone *)

\* the backend capability object is there
CapabilityPresent == backend.present

\* the canonical configuration carries disabled: true
DisabledFlag == "disabled" \in DOMAIN options /\ options["disabled"] = TRUE

\* AvailabilityState = capabilityPresent AND NOT configuration.disabled
FacadeAvailable == CapabilityPresent /\ ~DisabledFlag

\* the state the facade owns and the state the backend owns
ProgramState == <<options, backend, tokens, resolutions, render>>

----------------------------------------------------------------------------
(* C1 *)

\* C1: whenever the facade is unavailable (no capability object, or
\* options.disabled set), a configure call returns the very partial it was
\* given, leaves the canonical configuration as it was and calls no backend
\* merge.
C1_UnavailableConfigureEchoes ==
  [][(lastOp' = "configure" /\ ~FacadeAvailable)
       => /\ ret' = arg'
          /\ options' = options
          /\ delegated' = "none"
          /\ ~threw']_vars

\* configure({status: 404}) has returned {status: 404} on a disabled facade
\* and the status is not in the canonical configuration
C1_Witness ==
  /\ lastOp = "configure"
  /\ CapabilityPresent /\ DisabledFlag
  /\ arg = [status |-> 404]
  /\ ret = [status |-> 404]
  /\ "status" \notin DOMAIN options

----------------------------------------------------------------------------
(* C2 *)

\* C2: whenever the facade is available at call entry, a configure call
\* replaces the canonical configuration by the backend's merge of the
\* configuration before the call (prev) and the partial (next) and returns
\* that new configuration, a partial that sets disabled: true included.
C2_AvailableConfigureMerges ==
  [][(lastOp' = "configure" /\ FacadeAvailable)
       => /\ options' = mergeOpts(options, arg')
          /\ ret' = options'
          /\ delegated' = "mergeOpts"
          /\ ~threw']_vars

\* the call that set disabled: true was itself merged and returned the new
\* configuration
C2_Witness ==
  /\ lastOp = "configure"
  /\ delegated = "mergeOpts"
  /\ "disabled" \in DOMAIN arg /\ arg["disabled"] = TRUE
  /\ "status" \in DOMAIN arg
  /\ DisabledFlag
  /\ "status" \in DOMAIN options
  /\ ret = options

----------------------------------------------------------------------------
(* C3 *)

\* C3: with the capability present, once disabled: true is in the canonical
\* configuration no operation changes the configuration again: ok() stays
\* false, and every later configure call returns its partial and merges
\* nothing.
C3_DisabledIsPermanent ==
  [][(CapabilityPresent /\ DisabledFlag)
       => /\ options' = options
          /\ ~ok(options', backend')
          /\ lastOp' = "configure" => (ret' = arg' /\ delegated' = "none")]_vars

\* configure({disabled: true}) then configure({status: 404}): the second call
\* returned {status: 404} and the configuration is still {disabled: true}
C3_Witness ==
  /\ CapabilityPresent
  /\ options = [disabled |-> TRUE]
  /\ lastOp = "configure"
  /\ arg = [status |-> 404]
  /\ ret = [status |-> 404]
  /\ delegated = "none"

----------------------------------------------------------------------------
(* C4 *)

\* C4: whenever the facade is unavailable, wait() returns the inert promise
\* (data '', props {}, a resolve that does nothing) and registers no token
\* with the backend; calling that resolve raises nothing and leaves the
\* state of facade and backend as it was.
C4_UnavailableWaitIsInert ==
  [][/\ (lastOp' = "wait" /\ ~FacadeAvailable)
          => /\ ret' = InertPromise
             /\ ret'.data = "" /\ DOMAIN ret'.props = {}
             /\ delegated' = "none"
             /\ ~threw'
             /\ UNCHANGED ProgramState
     /\ lastOp' = "resolveInert"
          => /\ ~threw'
             /\ ret' = Undefined
             /\ UNCHANGED ProgramState]_vars

\* the resolve of an inert promise, handed out by a disabled facade, has been
\* called
C4_Witness ==
  /\ lastOp = "resolveInert"
  /\ inertHeld
  /\ ret = Undefined
  /\ CapabilityPresent /\ DisabledFlag
  /\ effect = "noop"
  /\ ~threw

----------------------------------------------------------------------------
(* C5 *)

\* C5: a wait token goes from Pending to Resolved at most once, whichever of
\* the three triggers (resolve(), DOM marker, timeout) come and in whatever
\* order: a trigger on a Pending token resolves it, a trigger on a Resolved
\* token changes nothing, and none raises an error.
C5_ResolvedAtMostOnce ==
  [][\A t \in DOMAIN tokens :
       /\ resolutions'[t] <= 1
       /\ tokens[t] = "Resolved"
            => tokens'[t] = "Resolved" /\ resolutions'[t] = resolutions[t]
       /\ (lastOp' \in {"resolve", "dom", "timeout"} /\ arg' = t)
            => /\ tokens'[t] = "Resolved"
               /\ ~threw'
               /\ effect' = IF tokens[t] = "Pending" THEN "resolved" ELSE "noop"]_vars

\* a trigger has arrived for a token an earlier trigger had resolved
C5_Witness ==
  /\ lastOp = "dom"
  /\ effect = "noop"
  /\ tokens[arg] = "Resolved"
  /\ resolutions[arg] = 1

----------------------------------------------------------------------------
(* C6 *)

\* C6, as the specification states it: whenever the facade is unavailable,
\* the capability present but disabled set included, onion() returns the
\* absent value and does not call the backend.
C6_OnionGatedOnAvailability ==
  [][(lastOp' = "onion" /\ ~FacadeAvailable)
       => (ret' = Undefined /\ delegated' = "none")]_vars

\* C6, amended: onion() tests the presence of the capability object alone.
\* Without the object it returns the absent value and calls nothing; with
\* it, disabled set or not, it calls the backend's onion and returns what
\* that answers. It changes neither facade nor backend state.
C6_OnionGatedOnPresence ==
  [][lastOp' = "onion"
       => /\ delegated' = (IF CapabilityPresent THEN "onion" ELSE "none")
          /\ ret' \in (IF CapabilityPresent THEN OnionResults ELSE {Undefined})
          /\ ~threw'
          /\ UNCHANGED ProgramState]_vars

\* onion() on a disabled facade has called the backend and returned an
\* address
C6_Witness ==
  /\ lastOp = "onion"
  /\ CapabilityPresent /\ DisabledFlag
  /\ delegated = "onion"
  /\ ret \in OnionAddrs

----------------------------------------------------------------------------
(* C7 *)

\* the member of the capability object that the operation that ran last
\* calls once past its gate, "none" if it is no facade operation
MemberOf(op) ==
  CASE op = "configure" -> "mergeOpts"
    [] op = "wait" -> "wait"
    [] op = "onion" -> "onion"
    [] OTHER -> "none"

\* whether the operation op, started in the current state, reaches its call
\* of the backend: onion() whenever the object is there, configure and wait
\* when in addition disabled is not set
ReachesBackend(op) ==
  /\ CapabilityPresent
  /\ op \in {"configure", "wait", "onion"}
  /\ op = "onion" \/ ~DisabledFlag

\* C7, as the specification states it: with the capability object absent, or
\* present but lacking a member, configure echoes its input, wait returns
\* the inert promise, onion returns the absent value, and none of them
\* throws.
C7_MissingMembersDegrade ==
  [][(~CapabilityPresent \/ backend.members # Members)
       => /\ ~threw'
          /\ lastOp' = "configure" => (ret' = arg' /\ options' = options)
          /\ lastOp' = "wait" => ret' = InertPromise
          /\ lastOp' = "onion" => ret' = Undefined]_vars

\* C7, amended: with the capability object absent, configure echoes its
\* input, wait returns the inert promise, onion returns the absent value and
\* none of them throws. With the object present but lacking a member, the
\* operation that reaches its call of that member throws a TypeError and
\* changes nothing, and no operation throws otherwise.
C7_AbsentDegradesMissingMemberThrows ==
  [][/\ ~CapabilityPresent
          => /\ ~threw'
             /\ delegated' = "none"
             /\ UNCHANGED ProgramState
             /\ lastOp' = "configure" => ret' = arg'
             /\ lastOp' = "wait" => ret' = InertPromise
             /\ lastOp' = "onion" => ret' = Undefined
     /\ threw' <=> (ReachesBackend(lastOp') /\ MemberOf(lastOp') \notin backend.members)
     /\ threw' => (delegated' = "none" /\ UNCHANGED ProgramState)]_vars

\* configure has thrown on a capability object without mergeOpts, and
\* nothing was merged
C7_Witness ==
  /\ lastOp = "configure"
  /\ threw
  /\ CapabilityPresent
  /\ backend.members = {"wait", "onion"}
  /\ options = EmptyOptions
  /\ arg = [status |-> 404]

----------------------------------------------------------------------------
(* C8 *)

\* C8: in an available configure call every option absent from the partial
\* keeps, in the new canonical configuration, the value it had (and stays
\* absent if it was absent); so configure({}) leaves the canonical
\* configuration equal to what it was, whatever was merged before.
C8_AbsentOptionsCarriedOver ==
  [][(lastOp' = "configure" /\ FacadeAvailable)
       => /\ DOMAIN options' = DOMAIN options \cup DOMAIN arg'
          /\ \A f \in DOMAIN options \ DOMAIN arg' : options'[f] = options[f]
          /\ arg' = EmptyOptions => (options' = options /\ ret' = options)]_vars

\* configure({}) has run, available, on a configuration that holds a status,
\* a list and a map, and returned it
C8_Witness ==
  /\ lastOp = "configure"
  /\ delegated = "mergeOpts"
  /\ arg = EmptyOptions
  /\ {"status", "removeNodes", "exports"} \subseteq DOMAIN options
  /\ ret = options

----------------------------------------------------------------------------
(* C9 *)

\* o.removeNodes, the empty list without it
listOf(o) == IF "removeNodes" \in DOMAIN o THEN o["removeNodes"] ELSE <<>>

\* C9: in an available configure call whose partial carries removeNodes, the
\* new canonical list is the list before the call followed by the partial's
\* list, nothing reordered and nothing dropped; so the canonical list is
\* always the concatenation, in call order, of every list that was merged.
C9_ListsAreAppended ==
  /\ [][(lastOp' = "configure" /\ FacadeAvailable /\ "removeNodes" \in DOMAIN arg')
          => /\ "removeNodes" \in DOMAIN options'
             /\ options'["removeNodes"] = listOf(options) \o arg'["removeNodes"]]_vars
  /\ [](listOf(options) = appended)

\* ['a'] was appended to the list ['a']: the duplicate is kept
C9_Witness ==
  /\ lastOp = "configure"
  /\ delegated = "mergeOpts"
  /\ "removeNodes" \in DOMAIN arg /\ arg["removeNodes"] = <<"a">>
  /\ "removeNodes" \in DOMAIN options /\ options["removeNodes"] = <<"a", "a">>
  /\ appended = <<"a", "a">>

----------------------------------------------------------------------------
(* C10 *)

\* o.exports, the empty map without it
mapOf(o) == IF "exports" \in DOMAIN o THEN o["exports"] ELSE NoExports

\* C10: in an available configure call whose partial carries exports, the
\* new canonical map has exactly the keys of the map before the call and of
\* the partial's map, the partial's keys with the partial's values and the
\* others with the values they had; and no operation ever removes a key from
\* the canonical map or changes one the partial does not carry.
C10_MapsAreMergedByKey ==
  [][/\ (lastOp' = "configure" /\ FacadeAvailable /\ "exports" \in DOMAIN arg')
          => /\ "exports" \in DOMAIN options'
             /\ DOMAIN options'["exports"] = DOMAIN mapOf(options) \cup DOMAIN arg'["exports"]
             /\ \A k \in DOMAIN arg'["exports"] : options'["exports"][k] = arg'["exports"][k]
             /\ \A k \in DOMAIN mapOf(options) \ DOMAIN arg'["exports"] :
                  options'["exports"][k] = options["exports"][k]
     /\ DOMAIN mapOf(options) \subseteq DOMAIN mapOf(options')]_vars

\* {x: 2} was merged into a map that held x and y: x is overwritten and y
\* has survived
C10_Witness ==
  /\ lastOp = "configure"
  /\ delegated = "mergeOpts"
  /\ "exports" \in DOMAIN arg /\ arg["exports"] = ("x" :> 2)
  /\ "exports" \in DOMAIN options
  /\ options["exports"] = ("x" :> 2) @@ ("y" :> 1)

----------------------------------------------------------------------------
(* C15 *)

\* C15: ok() returns true exactly when the capability object is present and
\* the canonical configuration's disabled flag is not set, online() returns
\* true exactly when the capability object is present, and neither call
\* changes the state of facade or backend: availability is computed from
\* that state at each call and stored nowhere.
C15_AvailabilityIsDerived ==
  [][/\ lastOp' = "ok"
          => /\ ret' = (CapabilityPresent /\ ~DisabledFlag)
             /\ ~threw'
             /\ UNCHANGED ProgramState
     /\ lastOp' = "online"
          => /\ ret' = CapabilityPresent
             /\ ~threw'
             /\ UNCHANGED ProgramState]_vars

\* ok() has answered false on a present capability that was disabled after a
\* status had been merged
C15_Witness ==
  /\ lastOp = "ok"
  /\ ret = FALSE
  /\ CapabilityPresent /\ DisabledFlag
  /\ "status" \in DOMAIN options

----------------------------------------------------------------------------
(* C16 *)

\* C16: the canonical configuration is empty after load, and the only step
\* that changes it is a configure call made while the facade is available:
\* wait(), onion(), ok(), online(), the resolution triggers and an
\* unavailable configure all leave it as it was.
C16_OnlyAvailableConfigureWrites ==
  /\ options = EmptyOptions
  /\ [][options' # options
          => /\ lastOp' = "configure"
             /\ FacadeAvailable
             /\ delegated' = "mergeOpts"]_vars

\* a token was issued and resolved by its timeout after a list and a map had
\* been merged, and the configuration still holds both
C16_Witness ==
  /\ lastOp = "timeout"
  /\ effect = "resolved"
  /\ {"removeNodes", "exports"} \subseteq DOMAIN options
  /\ appended = <<"a", "b">>
  /\ options["removeNodes"] = <<"a", "b">>

----------------------------------------------------------------------------
(* C11 *)

\* the options that hold one number or one boolean
ScalarOptions == NumberOptions \cup BooleanOptions

\* C11: in an available configure call whose merge succeeds, every number or
\* boolean option the partial carries has the partial's value afterwards,
\* whatever its value was, and every one the partial does not carry keeps
\* its value: the result for an option is decided by that option's two
\* values and by no other option.
C11_ScalarsAreReplaced ==
  [][(lastOp' = "configure" /\ FacadeAvailable /\ ~raised')
       => \A f \in ScalarOptions :
            /\ f \in DOMAIN options' <=> (f \in DOMAIN arg' \/ f \in DOMAIN options)
            /\ f \in DOMAIN options'
                 => options'[f] = IF f \in DOMAIN arg' THEN arg'[f] ELSE options[f]]_vars

\* {status: 404, httpEquiv: false} was merged into a configuration that also
\* holds sessionStorage
C11_Witness ==
  /\ lastOp = "configure"
  /\ delegated = "mergeOpts" /\ ~raised
  /\ arg = [status |-> 404, httpEquiv |-> FALSE]
  /\ options = [status |-> 404, httpEquiv |-> FALSE, sessionStorage |-> TRUE]

----------------------------------------------------------------------------
(* C17 *)

\* the partial exports a value that cannot be represented
ExportsUnrepresentable(p) ==
  /\ "exports" \in DOMAIN p
  /\ \E k \in DOMAIN p["exports"] : p["exports"][k] \in Unrepresentable

\* C17: when the merge of an available configure call fails with a
\* SerializationError, the error leaves configure (it is neither caught nor
\* turned into a return value) and the canonical configuration is what it
\* was before the call; nothing of the failed partial is in it then or
\* later.
C17_MergeErrorSurfaces ==
  /\ [][(lastOp' = "configure" /\ FacadeAvailable /\ ExportsUnrepresentable(arg'))
          => /\ raised'
             /\ ret' = Undefined
             /\ options' = options]_vars
  /\ [](\A k \in DOMAIN mapOf(options) : options["exports"][k] \notin Unrepresentable)

\* configure({status: 404, exports: {x: <unrepresentable>}}) has failed on a
\* configuration with status 200 and exports {x: 1}, which is unchanged
C17_Witness ==
  /\ lastOp = "configure"
  /\ raised
  /\ arg = [status |-> 404, exports |-> ("x" :> 0)]
  /\ options = [status |-> 200, exports |-> ("x" :> 1)]

----------------------------------------------------------------------------
(* C12 *)

\* C12: the backend does not begin to render while a wait token is Pending:
\* in every state in which rendering has begun, every token issued before
\* it began is Resolved.
C12_NoRenderWhilePending ==
  render.started
    => /\ render.awaited <= Len(tokens)
       /\ \A t \in 1..render.awaited : tokens[t] = "Resolved"

\* rendering has just begun after two tokens were issued and resolved
C12_Witness ==
  /\ lastOp = "render"
  /\ render.started
  /\ render.awaited = 2
  /\ tokens = <<"Resolved", "Resolved">>

----------------------------------------------------------------------------
(* C13 *)

\* C13: every wait token issued while the facade is available is Resolved
\* in the end: its timer expiring resolves it if nothing else has (each
\* timer of a Pending token being one that does expire), and the expiry
\* raises nothing and returns nothing to the page.
C13_EveryTokenIsResolved ==
  /\ \A t \in 1..MaxWaiting :
       (t \in DOMAIN tokens) ~> (t \in DOMAIN tokens /\ tokens[t] = "Resolved")
  /\ [][lastOp' = "timeout"
          => /\ ~threw' /\ ~raised'
             /\ ret' = Undefined
             /\ tokens'[arg'] = "Resolved"]_vars

\* the timer of the second token has resolved it, the first still Pending
C13_Witness ==
  /\ lastOp = "timeout"
  /\ arg = 2
  /\ effect = "resolved"
  /\ tokens = <<"Pending", "Resolved">>

----------------------------------------------------------------------------
(* C14 *)

\* the three characters that must not reach the markup
Unsafe == {"&", "<", ">"}

\* what the claim puts in the place of an unsafe character
C14_Replacement(ch) ==
  CASE ch = "&" -> <<"\\", "u", "0", "0", "2", "6">>
    [] ch = "<" -> <<"\\", "u", "0", "0", "3", "c">>
    [] ch = ">" -> <<"\\", "u", "0", "0", "3", "e">>

\* where character i of the JSON lands in the output: every unsafe
\* character before it takes six places instead of one
C14_Place(json, i) ==
  i + 5 * Cardinality({j \in 1..(i - 1) : json[j] \in Unsafe})

\* out is json with every unsafe character replaced and nothing else
\* altered
C14_ReplacedIn(json, out) ==
  /\ Len(out) = C14_Place(json, Len(json) + 1) - 1
  /\ \A i \in DOMAIN json :
       IF json[i] \in Unsafe
         THEN \A k \in 1..6 :
                out[C14_Place(json, i) + k - 1] = C14_Replacement(json[i])[k]
         ELSE out[C14_Place(json, i)] = json[i]

\* C14: the escaper's output for a JSON-serializable value is its JSON
\* encoding with every &, < and > replaced by \u0026, \u003c and \u003e
\* and no other character altered, so the output holds no literal &, < or >.
C14_EscaperReplacesThree ==
  lastOp = "escape"
    => /\ C14_ReplacedIn(JsonEncode(arg), ret)
       /\ \A i \in DOMAIN ret : ret[i] \notin Unsafe

\* the string <&> has been escaped
C14_Witness ==
  /\ lastOp = "escape"
  /\ arg = <<"<", "&", ">">>
  /\ ret = <<"\"", "\\", "u", "0", "0", "3", "c",
                   "\\", "u", "0", "0", "2", "6",
                   "\\", "u", "0", "0", "3", "e", "\"">>

====
